---- MODULE Spec2Model ----
(***************************************************************************)
(* OrionRisc-128 BASIC interpreter (src/system/interpreter).               *)
(*                                                                         *)
(* The model follows basic-interpreter.c character by character: a line    *)
(* of BASIC is a string, a cursor (const char **linePtr) is a 1-based      *)
(* position in it, and the character past the end is the terminating NUL,  *)
(* written "" here.  A double is modelled as an exact rational n/d in      *)
(* lowest terms; the texts the model feeds to the interpreter keep to      *)
(* values whose double arithmetic is exact in the comparisons made.        *)
(*                                                                         *)
(* A C function that goes on after a call is split there: the value the    *)
(* call returned is a parameter of the operator that models the rest of    *)
(* the function, so that every call is written, and evaluated, once.       *)
(***************************************************************************)
EXTENDS Integers, Sequences, FiniteSets, TLC

\* ------------------------------------------------------------------------
\* basic-interpreter.h: limits and error codes
\* ------------------------------------------------------------------------
MAX_PROGRAM_SIZE == 16384
MAX_VARIABLES == 256
MAX_LINE_LENGTH == 256
MAX_VAR_NAME_LENGTH == 32
MAX_ARRAY_DIMENSIONS == 3
STACK_SIZE == 32
LINE_OVERHEAD == 100

ERR_NONE == 0
ERR_SYNTAX == 1
ERR_OUT_OF_MEMORY == 2
ERR_UNDEFINED_VARIABLE == 3
ERR_TYPE_MISMATCH == 4
ERR_DIVISION_BY_ZERO == 5
ERR_ARRAY_BOUNDS == 6
ERR_STACK_OVERFLOW == 7
ERR_PROGRAM_TOO_LARGE == 8
ERR_LINE_NOT_FOUND == 9
ERR_NEXT_WITHOUT_FOR == 10

\* ------------------------------------------------------------------------
\* Characters
\* ------------------------------------------------------------------------
UpperLetters == "ABCDEFGHIJKLMNOPQRSTUVWXYZ"
LowerLetters == "abcdefghijklmnopqrstuvwxyz"
DigitChars == "0123456789"

\* *(text + i - 1); the NUL terminator is ""
Ch(s, i) == IF i >= 1 /\ i <= Len(s) THEN SubSeq(s, i, i) ELSE ""

UpperSet == {SubSeq(UpperLetters, i, i) : i \in 1..26}
LowerSet == {SubSeq(LowerLetters, i, i) : i \in 1..26}
DigitSet == {SubSeq(DigitChars, i, i) : i \in 1..10}

isdigit(c) == c \in DigitSet
DigitVal(c) == (CHOOSE i \in 1..10 : SubSeq(DigitChars, i, i) = c) - 1
DigitChar(v) == SubSeq(DigitChars, v + 1, v + 1)

toupper(c) ==
    IF c \in LowerSet
    THEN LET i == CHOOSE k \in 1..26 : SubSeq(LowerLetters, k, k) = c
         IN  SubSeq(UpperLetters, i, i)
    ELSE c

basic_is_alpha(c) == c \in UpperSet \/ c \in LowerSet
basic_is_alphanumeric(c) == basic_is_alpha(c) \/ isdigit(c)

RECURSIVE basic_str_toupper(_)
basic_str_toupper(s) ==
    IF Len(s) = 0 THEN ""
    ELSE toupper(SubSeq(s, 1, 1)) \o basic_str_toupper(SubSeq(s, 2, Len(s)))

\* strncpy(dst, src, n - 1); dst[n - 1] = '\0'
strncpy(s, n) == IF Len(s) > n - 1 THEN SubSeq(s, 1, n - 1) ELSE s

\* ------------------------------------------------------------------------
\* double, as an exact rational in lowest terms with a positive denominator
\* ------------------------------------------------------------------------
Abs(x) == IF x < 0 THEN -x ELSE x

RECURSIVE Gcd(_, _)
Gcd(a, b) == IF b = 0 THEN a ELSE Gcd(b, a % b)

Rat(n, d) ==
    LET s == IF d < 0 THEN -1 ELSE 1
        g == Gcd(Abs(n), Abs(d))
    IN  [n |-> (s * n) \div g, d |-> (s * d) \div g]

Num(i) == [n |-> i, d |-> 1]
RAdd(a, b) == Rat(a.n * b.d + b.n * a.d, a.d * b.d)
RSub(a, b) == Rat(a.n * b.d - b.n * a.d, a.d * b.d)
RMul(a, b) == Rat(a.n * b.n, a.d * b.d)
RDiv(a, b) == Rat(a.n * b.d, a.d * b.n)
RLt(a, b) == a.n * b.d < b.n * a.d
RLe(a, b) == a.n * b.d <= b.n * a.d
Bool(b) == IF b THEN Num(1) ELSE Num(0)

\* ------------------------------------------------------------------------
\* Cursor utilities
\* ------------------------------------------------------------------------
RECURSIVE basic_skip_whitespace(_, _)
basic_skip_whitespace(s, p) ==
    IF Ch(s, p) = " " \/ Ch(s, p) = "\t"
    THEN basic_skip_whitespace(s, p + 1)
    ELSE p

RECURSIVE ParseDigits(_, _, _)
ParseDigits(s, p, value) ==
    IF isdigit(Ch(s, p))
    THEN ParseDigits(s, p + 1, value * 10 + DigitVal(Ch(s, p)))
    ELSE [v |-> value, p |-> p]

\* No whitespace is skipped: at a blank the result is 0 and the cursor stays.
basic_parse_int(s, p) == ParseDigits(s, p, 0)

RECURSIVE ParseFraction(_, _, _, _)
ParseFraction(s, p, value, fraction) ==
    IF isdigit(Ch(s, p))
    THEN ParseFraction(s, p + 1,
                       RAdd(value, RMul(Num(DigitVal(Ch(s, p))), fraction)),
                       RMul(fraction, Rat(1, 10)))
    ELSE [v |-> value, p |-> p]

basic_parse_float(s, p0) ==
    LET sign == IF Ch(s, p0) = "-" THEN -1 ELSE 1
        p1 == IF Ch(s, p0) = "-" \/ Ch(s, p0) = "+" THEN p0 + 1 ELSE p0
        ip == ParseDigits(s, p1, 0)
        fp == IF Ch(s, ip.p) = "."
              THEN ParseFraction(s, ip.p + 1, Num(ip.v), Rat(1, 10))
              ELSE [v |-> Num(ip.v), p |-> ip.p]
    IN  [v |-> RMul(fp.v, Num(sign)), p |-> fp.p]

\* ------------------------------------------------------------------------
\* printf("%.6f", value)
\* ------------------------------------------------------------------------
RECURSIVE DecStr(_)
DecStr(k) == IF k < 10 THEN DigitChar(k) ELSE DecStr(k \div 10) \o DigitChar(k % 10)

RECURSIVE PadLeft(_, _)
PadLeft(str, width) == IF Len(str) >= width THEN str ELSE PadLeft("0" \o str, width)

FormatF6(r) ==
    LET a == Abs(r.n)
        scaled == (2 * a * 1000000 + r.d) \div (2 * r.d)
    IN  (IF r.n < 0 THEN "-" ELSE "")
        \o DecStr(scaled \div 1000000) \o "." \o PadLeft(DecStr(scaled % 1000000), 6)

\* ------------------------------------------------------------------------
\* Lexer
\* ------------------------------------------------------------------------
basic_get_keyword_type(word) ==
    CASE word = "PRINT" -> "TOK_PRINT"
      [] word = "INPUT" -> "TOK_INPUT"
      [] word = "LET" -> "TOK_LET"
      [] word = "IF" -> "TOK_IF"
      [] word = "THEN" -> "TOK_THEN"
      [] word = "ELSE" -> "TOK_ELSE"
      [] word = "FOR" -> "TOK_FOR"
      [] word = "TO" -> "TOK_TO"
      [] word = "STEP" -> "TOK_STEP"
      [] word = "NEXT" -> "TOK_NEXT"
      [] word = "GOSUB" -> "TOK_GOSUB"
      [] word = "RETURN" -> "TOK_RETURN"
      [] word = "GOTO" -> "TOK_GOTO"
      [] word = "READ" -> "TOK_READ"
      [] word = "DATA" -> "TOK_DATA"
      [] word = "DIM" -> "TOK_DIM"
      [] word = "END" -> "TOK_END"
      [] word = "STOP" -> "TOK_STOP"
      [] word = "REM" -> "TOK_REM"
      [] word = "AND" -> "TOK_AND"
      [] word = "OR" -> "TOK_OR"
      [] word = "NOT" -> "TOK_NOT"
      [] OTHER -> "TOK_EOL"

\* while (basic_is_alphanumeric(**linePtr)) (*linePtr)++;
RECURSIVE ScanIdent(_, _)
ScanIdent(s, p) == IF basic_is_alphanumeric(Ch(s, p)) THEN ScanIdent(s, p + 1) ELSE p

\* while (**linePtr && **linePtr != '"') (*linePtr)++;
RECURSIVE ScanQuote(_, _)
ScanQuote(s, p) == IF Ch(s, p) # "" /\ Ch(s, p) # "\"" THEN ScanQuote(s, p + 1) ELSE p

\* The type of a name that is no keyword.  The character tested is the one
\* before the cursor, which is the last character of the name itself.
IdentType(s, p, name) ==
    IF Len(name) = 1 THEN "TOK_VARIABLE"
    ELSE IF Ch(s, p - 1) = "(" THEN "TOK_FUNCTION"
    ELSE "TOK_VARIABLE"

Tok(type, str, v, p) == [ok |-> TRUE, type |-> type, str |-> str, v |-> v, p |-> p, nul |-> 0]

\* the quoted string that opens at p - 1 and ends, or not, at q
StringToken(s, p, q) ==
    [ok |-> TRUE, type |-> "TOK_STRING",
     str |-> strncpy(SubSeq(s, p, q - 1), MAX_VAR_NAME_LENGTH),
     v |-> Num(0),
     p |-> IF Ch(s, q) # "" THEN q + 1 ELSE q,
     nul |-> IF Ch(s, q) # "" THEN q ELSE 0]

\* the keyword or name spelled (in upper case) name, with the cursor at q
WordToken(s, q, name, kw) ==
    Tok(IF kw = "TOK_EOL" THEN IdentType(s, q, name) ELSE kw, name, Num(0), q)

NameToken(s, p, q) ==
    LET name == basic_str_toupper(strncpy(SubSeq(s, p, q - 1), MAX_VAR_NAME_LENGTH))
    IN  WordToken(s, q, name, basic_get_keyword_type(name))

NumberToken(f) == Tok("TOK_NUMBER", "", f.v, f.p)

\* basic_get_token with the cursor at p after the blanks, c = *p, d = p[1]
TokenAt(s, p, c, d) ==
    IF c = "" THEN Tok("TOK_EOL", "", Num(0), p)
    ELSE IF isdigit(c) \/ (c = "." /\ isdigit(d)) THEN NumberToken(basic_parse_float(s, p))
    ELSE IF c = "\"" THEN StringToken(s, p + 1, ScanQuote(s, p + 1))
    ELSE IF c = "+" THEN Tok("TOK_PLUS", "", Num(0), p + 1)
    ELSE IF c = "-" THEN Tok("TOK_MINUS", "", Num(0), p + 1)
    ELSE IF c = "*" THEN Tok("TOK_MULTIPLY", "", Num(0), p + 1)
    ELSE IF c = "/" THEN Tok("TOK_DIVIDE", "", Num(0), p + 1)
    ELSE IF c = "=" THEN Tok("TOK_EQUALS", "", Num(0), p + 1)
    ELSE IF c = "<"
    THEN IF d = "=" THEN Tok("TOK_LESS_EQUAL", "", Num(0), p + 2)
         ELSE IF d = ">" THEN Tok("TOK_NOT_EQUAL", "", Num(0), p + 2)
         ELSE Tok("TOK_LESS", "", Num(0), p + 1)
    ELSE IF c = ">"
    THEN IF d = "=" THEN Tok("TOK_GREATER_EQUAL", "", Num(0), p + 2)
         ELSE Tok("TOK_GREATER", "", Num(0), p + 1)
    ELSE IF c = "(" THEN Tok("TOK_LPAREN", "", Num(0), p + 1)
    ELSE IF c = ")" THEN Tok("TOK_RPAREN", "", Num(0), p + 1)
    ELSE IF c = "," THEN Tok("TOK_COMMA", "", Num(0), p + 1)
    ELSE IF c = ";" THEN Tok("TOK_SEMICOLON", "", Num(0), p + 1)
    ELSE IF c = ":" THEN Tok("TOK_COLON", "", Num(0), p + 1)
    ELSE IF basic_is_alpha(c) THEN NameToken(s, p, ScanIdent(s, p))
    ELSE [ok |-> FALSE, type |-> "TOK_EOL", str |-> "", v |-> Num(0), p |-> p, nul |-> 0]

\* basic_get_token: ok = FALSE is the NULL return (which records a syntax
\* error in globalState, whatever session is being served); nul is the
\* position of the closing quote that a string token overwrites with NUL.
basic_get_token(s, p0) ==
    LET p == basic_skip_whitespace(s, p0)
    IN  TokenAt(s, p, Ch(s, p), Ch(s, p + 1))

\* The name parsed by LET, FOR, NEXT, INPUT, READ and DIM: upper-cased, and
\* cut at MAX_VAR_NAME_LENGTH - 1 characters while the cursor runs on.
NameUpTo(s, p, q) ==
    [name |-> basic_str_toupper(strncpy(SubSeq(s, p, q - 1), MAX_VAR_NAME_LENGTH)), p |-> q]

ParseName(s, p) == NameUpTo(s, p, ScanIdent(s, p))

\* ------------------------------------------------------------------------
\* Variable store: state->variables[0 .. variableCount-1]
\* ------------------------------------------------------------------------
\* index of the first variable called name, 0 for NULL
basic_find_variable(V, name) ==
    IF \E i \in 1..Len(V) : V[i].name = name
    THEN CHOOSE i \in 1..Len(V) : V[i].name = name /\ \A j \in 1..(i - 1) : V[j].name # name
    ELSE 0

NumericVar(name) ==
    [name |-> name, type |-> "VAR_NUMERIC", dims |-> <<>>, size |-> 0, num |-> Num(0)]

\* returns the store and the error code after the call, and the index (0 = NULL)
basic_create_variable(V, err, name) ==
    IF Len(V) >= MAX_VARIABLES
    THEN [V |-> V, err |-> ERR_OUT_OF_MEMORY, i |-> 0]
    ELSE [V |-> Append(V, NumericVar(strncpy(name, MAX_VAR_NAME_LENGTH))), err |-> err,
          i |-> Len(V) + 1]

\* if (var && var->type == VAR_NUMERIC) var->value.numericValue = value;
\* a variable that is not numeric is left as it is, and nothing is recorded
StoreValue(c, value) ==
    IF c.i # 0 /\ c.V[c.i].type = "VAR_NUMERIC"
    THEN [V |-> [c.V EXCEPT ![c.i].num = value], err |-> c.err]
    ELSE [V |-> c.V, err |-> c.err]

\* var is what basic_find_variable returned; NULL has the variable created
SetFound(V, err, name, value, var) ==
    StoreValue(IF var = 0 THEN basic_create_variable(V, err, name)
               ELSE [V |-> V, err |-> err, i |-> var], value)

basic_set_variable_value(V, err, name, value) ==
    SetFound(V, err, name, value, basic_find_variable(V, name))

\* atof on the text of a string variable
basic_val(str) == basic_parse_float(str, basic_skip_whitespace(str, 1)).v

\* var is what basic_find_variable returned
GetFound(V, err, var) ==
    IF var = 0 THEN [v |-> Num(0), err |-> ERR_UNDEFINED_VARIABLE]
    ELSE IF V[var].type = "VAR_NUMERIC" THEN [v |-> V[var].num, err |-> err]
    ELSE IF V[var].type = "VAR_STRING" THEN [v |-> basic_val(V[var].str), err |-> err]
    ELSE [v |-> Num(0), err |-> ERR_TYPE_MISMATCH]

basic_get_variable_value(V, err, name) == GetFound(V, err, basic_find_variable(V, name))

\* No look-up comes first: a name already in the store gets a second entry.
basic_create_array(V, err, name, dimensions, dimCount) ==
    IF Len(V) >= MAX_VARIABLES
    THEN [ok |-> 0, V |-> V, err |-> ERR_OUT_OF_MEMORY]
    ELSE [ok |-> 1,
          V |-> Append(V, [name |-> strncpy(name, MAX_VAR_NAME_LENGTH),
                           type |-> "VAR_ARRAY_NUMERIC",
                           dims |-> SubSeq(dimensions, 1,
                                           IF dimCount < MAX_ARRAY_DIMENSIONS
                                           THEN dimCount ELSE MAX_ARRAY_DIMENSIONS),
                           size |-> dimCount,
                           num |-> Num(0)]),
          err |-> err]

\* ------------------------------------------------------------------------
\* Built-in functions of one argument
\* ------------------------------------------------------------------------
basic_abs(x) == [n |-> Abs(x.n), d |-> x.d]
basic_int(x) == Num(x.n \div x.d)
basic_sgn(x) == IF x.n > 0 THEN Num(1) ELSE IF x.n < 0 THEN Num(-1) ELSE Num(0)

\* sqrt, exact on the squares of rationals; the other arguments, and the
\* transcendental built-ins (RND SIN COS TAN LOG EXP), have no rational value
\* and no text of the model calls them
IsSquare(k) == \E r \in 0..k : r * r = k
Root(k) == CHOOSE r \in 0..k : r * r = k
basic_sqr(x) ==
    IF x.n >= 0 /\ IsSquare(x.n) /\ IsSquare(x.d) THEN Rat(Root(x.n), Root(x.d)) ELSE Num(0)
KnownFunctions == {"ABS", "RND", "SQR", "SIN", "COS", "TAN", "LOG", "EXP", "INT", "SGN"}

CallFunction(functionName, x) ==
    IF functionName = "ABS" THEN basic_abs(x)
    ELSE IF functionName = "INT" THEN basic_int(x)
    ELSE IF functionName = "SGN" THEN basic_sgn(x)
    ELSE IF functionName = "SQR" THEN basic_sqr(x)
    ELSE Num(0)

\* ------------------------------------------------------------------------
\* Expression evaluator.  Each procedure returns the value, the cursor, the
\* session's error code after the call and dz, which remembers that a
\* division by zero was detected on the way.
\* ------------------------------------------------------------------------
Ev(v, p, err, dz) == [v |-> v, p |-> p, err |-> err, dz |-> dz]

RECURSIVE basic_evaluate_expression(_, _, _, _)
RECURSIVE ExpressionLoop(_, _, _)
RECURSIVE basic_evaluate_term(_, _, _, _)
RECURSIVE TermLoop(_, _, _)
RECURSIVE basic_evaluate_factor(_, _, _, _)
RECURSIVE basic_evaluate_function(_, _, _, _, _)

\* basic_evaluate_function at the place q where ')' is expected
FunctionClose(functionName, s, a, q) ==
    IF Ch(s, q) # ")" THEN Ev(Num(0), q, ERR_SYNTAX, a.dz)
    ELSE IF functionName \in KnownFunctions
    THEN Ev(CallFunction(functionName, a.v), q + 1, a.err, a.dz)
    ELSE Ev(Num(0), q + 1, ERR_SYNTAX, a.dz)

\* basic_evaluate_function once its argument a is evaluated
FunctionArgument(functionName, s, a) ==
    IF a.err # ERR_NONE THEN Ev(Num(0), a.p, a.err, a.dz)
    ELSE FunctionClose(functionName, s, a, basic_skip_whitespace(s, a.p))

\* basic_evaluate_function at the place p where '(' is expected
FunctionOpen(V, functionName, s, p, err) ==
    IF Ch(s, p) # "(" THEN Ev(Num(0), p, ERR_SYNTAX, FALSE)
    ELSE FunctionArgument(functionName, s, basic_evaluate_expression(V, s, p + 1, err))

basic_evaluate_function(V, functionName, s, p0, err) ==
    FunctionOpen(V, functionName, s, basic_skip_whitespace(s, p0), err)

\* the factor "( expression )" once the expression e is evaluated
FactorParen(s, sign, e) ==
    IF Ch(s, e.p) # ")" THEN Ev(Num(0), e.p, ERR_SYNTAX, e.dz)
    ELSE Ev(RMul(e.v, Num(sign)), e.p + 1, e.err, e.dz)

FactorLiteral(sign, f, err) == Ev(RMul(f.v, Num(sign)), f.p, err, FALSE)

FactorVariable(sign, g, p) == Ev(RMul(g.v, Num(sign)), p, g.err, FALSE)

FactorFunction(sign, f) == Ev(RMul(f.v, Num(sign)), f.p, f.err, f.dz)

\* the factor that starts with a letter, once its token is read
FactorName(V, s, sign, err, token) ==
    IF token.type = "TOK_VARIABLE"
    THEN FactorVariable(sign, basic_get_variable_value(V, err, token.str), token.p)
    ELSE IF token.type = "TOK_FUNCTION"
    THEN FactorFunction(sign, basic_evaluate_function(V, token.str, s, token.p, err))
    ELSE Ev(Num(0), token.p, ERR_SYNTAX, FALSE)

\* basic_evaluate_factor after the signs, with the cursor at p
FactorAt(V, s, sign, err, p) ==
    LET c == Ch(s, p)
    IN  IF c = "(" THEN FactorParen(s, sign, basic_evaluate_expression(V, s, p + 1, err))
        ELSE IF isdigit(c) \/ c = "." THEN FactorLiteral(sign, basic_parse_float(s, p), err)
        ELSE IF basic_is_alpha(c) THEN FactorName(V, s, sign, err, basic_get_token(s, p))
        ELSE Ev(Num(0), p, ERR_SYNTAX, FALSE)

\* if (**linePtr == '-') ...; if (**linePtr == '+') ...: the cursor after them
AfterSigns(s, p) ==
    LET q == IF Ch(s, p) = "-" THEN p + 1 ELSE p
    IN  IF Ch(s, q) = "+" THEN q + 1 ELSE q

\* one '-' then one '+' are taken, in that order
FactorSigns(V, s, p, err) ==
    FactorAt(V, s, IF Ch(s, p) = "-" THEN -1 ELSE 1, err,
             basic_skip_whitespace(s, AfterSigns(s, p)))

basic_evaluate_factor(V, s, p0, err) ==
    FactorSigns(V, s, basic_skip_whitespace(s, p0), err)

\* left *= right, or left /= right where a zero divisor records the error
\* and returns 0.0 at once
TermApply(V, s, op, l, r) ==
    IF op = "/" /\ r.v = Num(0) THEN Ev(Num(0), r.p, ERR_DIVISION_BY_ZERO, TRUE)
    ELSE TermLoop(V, s, Ev(IF op = "/" THEN RDiv(l.v, r.v) ELSE RMul(l.v, r.v),
                           r.p, r.err, l.dz \/ r.dz))

TermAt(V, s, l, p) ==
    IF Ch(s, p) = "*" \/ Ch(s, p) = "/"
    THEN TermApply(V, s, Ch(s, p), l, basic_evaluate_factor(V, s, p + 1, l.err))
    ELSE Ev(l.v, p, l.err, l.dz)

\* the loop of basic_evaluate_term, with left in l.v and the cursor in l.p
TermLoop(V, s, l) == TermAt(V, s, l, basic_skip_whitespace(s, l.p))

\* a term that stops at its first factor
TermOfOneFactor(V, s, p, err) == basic_evaluate_factor(V, s, p, err)

basic_evaluate_term(V, s, p, err) ==
    TermLoop(V, s, basic_evaluate_factor(V, s, p, err))

\* the binary operators of basic_evaluate_expression
Apply(op, a, b) ==
    CASE op = "+" -> RAdd(a, b)
      [] op = "-" -> RSub(a, b)
      [] op = "=" -> Bool(a = b)
      [] op = "<=" -> Bool(RLe(a, b))
      [] op = "<>" -> Bool(a # b)
      [] op = "<" -> Bool(RLt(a, b))
      [] op = ">=" -> Bool(RLe(b, a))
      [] op = ">" -> Bool(RLt(b, a))

\* the operator that starts with c, d being the character after it
OperatorAt(c, d) ==
    IF c = "<" /\ (d = "=" \/ d = ">") THEN c \o d
    ELSE IF c = ">" /\ d = "=" THEN c \o d
    ELSE IF c \in {"+", "-", "=", "<", ">"} THEN c
    ELSE ""

ExpressionApply(V, s, op, l, r) ==
    ExpressionLoop(V, s, Ev(Apply(op, l.v, r.v), r.p, r.err, l.dz \/ r.dz))

ExpressionAt(V, s, l, p) ==
    LET op == OperatorAt(Ch(s, p), Ch(s, p + 1))
    IN  IF op = "" THEN Ev(l.v, p, l.err, l.dz)
        ELSE ExpressionApply(V, s, op, l, basic_evaluate_term(V, s, p + Len(op), l.err))

\* the loop of basic_evaluate_expression, with left in l.v and the cursor in l.p
ExpressionLoop(V, s, l) == ExpressionAt(V, s, l, basic_skip_whitespace(s, l.p))

basic_evaluate_expression(V, s, p, err) ==
    ExpressionLoop(V, s, basic_evaluate_term(V, s, p, err))

\* ------------------------------------------------------------------------
\* Statement handlers.  A handler works on a world w:
\*   w.st    the BASICState the call was given
\*   w.gErr  globalState.errorCode, the process-wide instance
\*   w.out   what the call has written to standard output
\*   w.inp   the console lines still to be read
\*   w.nul   where the lexer has overwritten the statement text with NUL
\*   w.fate  "ok", or how the call failed to return: "crash" (a NULL token
\*           dereferenced), "hang" (a loop that no longer advances),
\*           "blocked" (waiting for console input that never comes)
\* and returns [ok |-> the int it returns, w |-> the world afterwards].
\* ------------------------------------------------------------------------
Ret(ok, w) == [ok |-> ok, w |-> w]

\* a failure that records nothing
ErrorNotRecorded(w, errorCode) == w

basic_set_error(w, errorCode) == [w EXCEPT !.st.errorCode = errorCode]

Fate(w, f) == Ret(0, [w EXCEPT !.fate = f])

\* the side effects of reading tok with basic_get_token
LexIn(w, tok) ==
    [w EXCEPT !.gErr = IF tok.ok THEN @ ELSE ERR_SYNTAX,
              !.nul = IF tok.nul # 0 /\ @ = 0 THEN tok.nul ELSE @]

Emit(w, text) == [w EXCEPT !.out = @ \o text]

\* while (**linePtr && **linePtr != '"') basic_print_char(**linePtr)
QuotedText(s, p) == SubSeq(s, p, ScanQuote(s, p) - 1)
AfterQuote(s, q) == IF Ch(s, q) = "\"" THEN q + 1 ELSE q
AfterQuoted(s, p) == AfterQuote(s, ScanQuote(s, p))
SkipComma(s, q) == IF Ch(s, q) = "," THEN q + 1 ELSE q

AtEnd(c) == c = "" \/ c = "\n" \/ c = ":"

Stored(w, r) == [w EXCEPT !.st.variables = r.V, !.st.errorCode = r.err]

SetVar(w, name, value) ==
    Stored(w, basic_set_variable_value(w.st.variables, w.st.errorCode, name, value))

RECURSIVE PrintLoop(_, _, _, _)

\* the item of PRINT that is an expression, once it is evaluated
PrintValue(w, s, newline, e) ==
    IF e.err # ERR_NONE THEN Ret(0, basic_set_error(w, e.err))
    ELSE PrintLoop(Emit(w, FormatF6(e.v)), s, e.p, newline)

PrintAt(w, s, newline, p) ==
    LET c == Ch(s, p)
    IN  IF AtEnd(c) THEN Ret(1, IF newline # 0 THEN Emit(w, "\n") ELSE w)
        ELSE IF c = "," THEN PrintLoop(Emit(w, "     "), s, p + 1, newline)
        ELSE IF c = ";" THEN PrintLoop(w, s, p + 1, 0)
        ELSE IF c = "\""
        THEN PrintLoop(Emit(w, QuotedText(s, p + 1)), s, AfterQuoted(s, p + 1), newline)
        ELSE PrintValue(w, s, newline,
                        basic_evaluate_expression(w.st.variables, s, p, w.st.errorCode))

\* newline is cleared by any ';' of the statement and never set again
PrintLoop(w, s, p0, newline) == PrintAt(w, s, newline, basic_skip_whitespace(s, p0))

basic_handle_print(w, s, p) == PrintLoop(w, s, p, 1)

RECURSIVE basic_handle_input(_, _, _)

\* the variable nm.name is read from the console
InputValue(w, s, nm) ==
    IF w.inp = <<>> THEN Fate(Emit(w, "? "), "blocked")
    ELSE basic_handle_input(SetVar([Emit(w, "? ") EXCEPT !.inp = Tail(@)],
                                   nm.name, basic_val(Head(w.inp))),
                            s, SkipComma(s, nm.p))

InputAt(w, s, p) ==
    LET c == Ch(s, p)
    IN  IF AtEnd(c) THEN Ret(1, w)
        ELSE IF c = "\""
        THEN basic_handle_input(Emit(w, QuotedText(s, p + 1) \o "? "), s,
                                SkipComma(s, AfterQuoted(s, p + 1)))
        ELSE IF basic_is_alpha(c) THEN InputValue(w, s, ParseName(s, p))
        ELSE IF c = "," THEN basic_handle_input(w, s, p + 1)
        ELSE Fate(w, "hang")

\* one turn of the loop of basic_handle_input, the cursor at p0
basic_handle_input(w, s, p0) == InputAt(w, s, basic_skip_whitespace(s, p0))

\* basic_handle_let once the expression e is evaluated
LetAssign(w, name, e) ==
    IF e.err # ERR_NONE THEN Ret(0, basic_set_error(w, e.err))
    ELSE Ret(1, SetVar(w, name, e.v))

\* basic_handle_let at the place q where '=' is expected
LetEquals(w, s, name, q) ==
    IF Ch(s, q) # "=" THEN Ret(0, basic_set_error(w, ERR_SYNTAX))
    ELSE LetAssign(w, name,
                   basic_evaluate_expression(w.st.variables, s, q + 1, w.st.errorCode))

LetFrom(w, s, p) ==
    IF ~basic_is_alpha(Ch(s, p)) THEN Ret(0, basic_set_error(w, ERR_SYNTAX))
    ELSE LetEquals(w, s, ParseName(s, p).name,
                   basic_skip_whitespace(s, ParseName(s, p).p))

basic_handle_let(w, s, p0) == LetFrom(w, s, basic_skip_whitespace(s, p0))

\* The end of basic_handle_for: the variable has been set (w2), then the
\* stack is checked and the line number of the FOR is pushed.  The limit and
\* the step have been evaluated and are dropped.
ForPush(w2) ==
    IF Len(w2.st.forStack) >= STACK_SIZE
    THEN Ret(0, basic_set_error(w2, ERR_STACK_OVERFLOW))
    ELSE Ret(1, [w2 EXCEPT !.st.forStack = Append(@, w2.st.currentLineNumber)])

\* after the limit: step is the value of the STEP clause, or stands for the
\* default 1.0 with the error code as it was
ForStepValue(w, name, initial, step) ==
    IF step.err # ERR_NONE THEN Ret(0, basic_set_error(w, step.err))
    ELSE ForPush(SetVar(w, name, initial.v))

\* token is what follows the limit, hasWord whether a word starts there
ForStep(w, s, name, initial, hasWord, token) ==
    ForStepValue(w, name, initial,
                 IF hasWord /\ token.type = "TOK_STEP"
                 THEN basic_evaluate_expression(w.st.variables, s, token.p, w.st.errorCode)
                 ELSE Ev(Num(1), token.p, ERR_NONE, FALSE))

ForAfterFinal(w, s, name, initial, r) ==
    ForStep(w, s, name, initial, basic_is_alpha(Ch(s, r)), basic_get_token(s, r))

ForFinal(w, s, name, initial, final) ==
    IF final.err # ERR_NONE THEN Ret(0, basic_set_error(w, final.err))
    ELSE ForAfterFinal(w, s, name, initial, basic_skip_whitespace(s, final.p))

\* token is what was read where TO is expected; NULL is dereferenced
ForTo(w, s, name, initial, token) ==
    IF ~token.ok THEN Fate(LexIn(w, token), "crash")
    ELSE IF token.type # "TOK_TO"
    THEN Ret(0, basic_set_error(LexIn(w, token), ERR_SYNTAX))
    ELSE ForFinal(LexIn(w, token), s, name, initial,
             basic_evaluate_expression(w.st.variables, s, token.p, w.st.errorCode))

ForInitial(w, s, name, initial) ==
    IF initial.err # ERR_NONE THEN Ret(0, basic_set_error(w, initial.err))
    ELSE ForTo(w, s, name, initial,
               basic_get_token(s, basic_skip_whitespace(s, initial.p)))

ForEquals(w, s, name, q) ==
    IF Ch(s, q) # "=" THEN Ret(0, basic_set_error(w, ERR_SYNTAX))
    ELSE ForInitial(w, s, name,
                    basic_evaluate_expression(w.st.variables, s, q + 1, w.st.errorCode))

ForFrom(w, s, p) ==
    IF ~basic_is_alpha(Ch(s, p)) THEN Ret(0, basic_set_error(w, ERR_SYNTAX))
    ELSE ForEquals(w, s, ParseName(s, p).name,
                   basic_skip_whitespace(s, ParseName(s, p).p))

basic_handle_for(w, s, p0) == ForFrom(w, s, basic_skip_whitespace(s, p0))

\* basic_handle_next as it would be if the empty stack were reported the way
\* basic_handle_return reports its own: with the generic syntax error.
NextAsSyntaxError(w, s, p0) ==
    IF Len(w.st.forStack) <= 0
    THEN Ret(0, basic_set_error(w, ERR_SYNTAX))
    ELSE Ret(1, [w EXCEPT !.st.forStack = SubSeq(@, 1, Len(@) - 1)])

\* "For now, just pop the stack": the optional name is read and ignored, the
\* loop variable is neither stepped nor tested, and nothing tells the run
\* loop to go back.
basic_handle_next(w, s, p0) ==
    IF Len(w.st.forStack) <= 0
    THEN Ret(0, basic_set_error(w, ERR_NEXT_WITHOUT_FOR))
    ELSE Ret(1, [w EXCEPT !.st.forStack = SubSeq(@, 1, Len(@) - 1)])

\* findLine: the table is walked in order and given up at the first larger number
RECURSIVE findLine(_, _, _)
findLine(lines, i, lineNumber) ==
    IF i > Len(lines) THEN 0
    ELSE IF lines[i].lineNumber = lineNumber THEN i
    ELSE IF lines[i].lineNumber > lineNumber THEN 0
    ELSE findLine(lines, i + 1, lineNumber)

\* The target is looked up and nothing else: "In a full implementation, we'd
\* need to modify the execution flow.  For now, just return success".
basic_handle_goto_line(w, lineNumber) ==
    IF findLine(w.st.programLines, 1, lineNumber) = 0
    THEN Ret(0, basic_set_error(w, ERR_LINE_NOT_FOUND))
    ELSE Ret(1, w)

\* The number is parsed where the keyword ends, blanks not skipped.
basic_handle_gosub(w, s, p) ==
    IF w.st.errorCode # ERR_NONE THEN Ret(0, w)
    ELSE IF Len(w.st.gosubStack) >= STACK_SIZE
    THEN Ret(0, basic_set_error(w, ERR_STACK_OVERFLOW))
    ELSE basic_handle_goto_line(
             [w EXCEPT !.st.gosubStack = Append(@, w.st.currentLineNumber)],
             basic_parse_int(s, p).v)

basic_handle_return(w, s, p) ==
    IF Len(w.st.gosubStack) <= 0
    THEN Ret(0, basic_set_error(w, ERR_SYNTAX))
    ELSE basic_handle_goto_line(
             [w EXCEPT !.st.gosubStack = SubSeq(@, 1, Len(@) - 1)],
             w.st.gosubStack[Len(w.st.gosubStack)])

\* The number is parsed where the keyword ends, blanks not skipped.
basic_handle_goto(w, s, p) ==
    IF w.st.errorCode # ERR_NONE THEN Ret(0, w)
    ELSE basic_handle_goto_line(w, basic_parse_int(s, p).v)

\* "Simplified implementation - return 0 for now"
basic_read_data_value(w) == Num(0)

RECURSIVE basic_handle_read(_, _, _)

ReadValue(w, s, nm) ==
    IF w.st.errorCode # ERR_NONE THEN Ret(0, w)
    ELSE basic_handle_read(SetVar(w, nm.name, basic_read_data_value(w)), s,
                           SkipComma(s, nm.p))

ReadAt(w, s, p) ==
    LET c == Ch(s, p)
    IN  IF AtEnd(c) THEN Ret(1, w)
        ELSE IF basic_is_alpha(c) THEN ReadValue(w, s, ParseName(s, p))
        ELSE IF c = "," THEN basic_handle_read(w, s, p + 1)
        ELSE Fate(w, "hang")

\* one turn of the loop of basic_handle_read, the cursor at p0
basic_handle_read(w, s, p0) == ReadAt(w, s, basic_skip_whitespace(s, p0))

basic_handle_data(w, s, p) == Ret(1, w)

\* the extents between the parentheses of one DIM item
\*   while (**linePtr && **linePtr != ')') { dimensions[dimCount++] = ...; }
\* the third extent is refused as one too many
RECURSIVE DimExtents(_, _, _, _)

DimExtent(w, s, dimensions, n) ==
    IF w.st.errorCode # ERR_NONE
    THEN [ok |-> 0, w |-> w, p |-> n.p, dimensions |-> dimensions]
    ELSE IF Len(dimensions) + 1 >= MAX_ARRAY_DIMENSIONS
    THEN [ok |-> 0, w |-> basic_set_error(w, ERR_SYNTAX), p |-> n.p,
          dimensions |-> dimensions]
    ELSE DimExtents(w, s, SkipComma(s, basic_skip_whitespace(s, n.p)),
                    Append(dimensions, n.v))

DimExtents(w, s, p, dimensions) ==
    IF Ch(s, p) = "" \/ Ch(s, p) = ")"
    THEN [ok |-> 1, w |-> w, p |-> p, dimensions |-> dimensions]
    ELSE DimExtent(w, s, dimensions, basic_parse_int(s, p))

RECURSIVE basic_handle_dim(_, _, _)

\* a is what basic_create_array returned, r the cursor after the item
DimCreated(w, s, r, a) ==
    IF a.ok = 0 THEN Ret(0, [w EXCEPT !.st.errorCode = a.err])
    ELSE basic_handle_dim([w EXCEPT !.st.variables = a.V], s, SkipComma(s, r))

\* x is what the loop over the extents has left
DimItem(s, name, x) ==
    IF x.ok = 0 THEN Ret(0, x.w)
    ELSE DimCreated(x.w, s, IF Ch(s, x.p) = ")" THEN x.p + 1 ELSE x.p,
                    basic_create_array(x.w.st.variables, x.w.st.errorCode, name,
                                       x.dimensions, Len(x.dimensions)))

DimOpen(w, s, name, q) ==
    IF Ch(s, q) # "(" THEN Ret(0, basic_set_error(w, ERR_SYNTAX))
    ELSE DimItem(s, name, DimExtents(w, s, q + 1, <<>>))

DimAt(w, s, p) ==
    LET c == Ch(s, p)
    IN  IF AtEnd(c) THEN Ret(1, w)
        ELSE IF basic_is_alpha(c)
        THEN DimOpen(w, s, ParseName(s, p).name,
                     basic_skip_whitespace(s, ParseName(s, p).p))
        ELSE IF c = "," THEN basic_handle_dim(w, s, p + 1)
        ELSE Fate(w, "hang")

\* one turn of the loop of basic_handle_dim, the cursor at p0
basic_handle_dim(w, s, p0) == DimAt(w, s, basic_skip_whitespace(s, p0))

\* END as it would be if it left the running flag alone
EndKeepingRunning(w, s, p) == Ret(1, w)

basic_handle_end(w, s, p) == Ret(1, [w EXCEPT !.st.running = 0])
basic_handle_stop(w, s, p) == Ret(1, [w EXCEPT !.st.running = 0])
basic_handle_rem(w, s, p) == Ret(1, w)

RECURSIVE executeStatement(_, _, _)

\* basic_handle_if once the token after the condition is read; NULL is
\* dereferenced
IfThen(w, s, condition, token) ==
    IF ~token.ok THEN Fate(LexIn(w, token), "crash")
    ELSE IF token.type # "TOK_THEN"
    THEN Ret(0, basic_set_error(LexIn(w, token), ERR_SYNTAX))
    ELSE IF condition.v # Num(0) THEN executeStatement(LexIn(w, token), s, token.p)
    ELSE Ret(1, LexIn(w, token))

IfAfterCondition(w, s, condition, p) ==
    IF Ch(s, p) = "" THEN Ret(0, basic_set_error(w, ERR_SYNTAX))
    ELSE IfThen(w, s, condition, basic_get_token(s, p))

IfCondition(w, s, condition) ==
    IF condition.err # ERR_NONE THEN Ret(0, basic_set_error(w, condition.err))
    ELSE IfAfterCondition(w, s, condition, basic_skip_whitespace(s, condition.p))

basic_handle_if(w, s, p) ==
    IfCondition(w, s, basic_evaluate_expression(w.st.variables, s, p, w.st.errorCode))

\* the switch of executeStatement on the first token, of type t (world w1
\* after reading it)
Dispatch(w1, s, token, t) ==
    IF ~token.ok THEN Ret(0, basic_set_error(w1, ERR_SYNTAX))
    ELSE IF t = "TOK_PRINT" THEN basic_handle_print(w1, s, token.p)
    ELSE IF t = "TOK_INPUT" THEN basic_handle_input(w1, s, token.p)
    ELSE IF t = "TOK_LET" \/ t = "TOK_VARIABLE"
    THEN basic_handle_let(w1, s, IF t = "TOK_LET" THEN token.p
                                 ELSE token.p - Len(token.str))
    ELSE IF t = "TOK_IF" THEN basic_handle_if(w1, s, token.p)
    ELSE IF t = "TOK_FOR" THEN basic_handle_for(w1, s, token.p)
    ELSE IF t = "TOK_NEXT" THEN basic_handle_next(w1, s, token.p)
    ELSE IF t = "TOK_GOSUB" THEN basic_handle_gosub(w1, s, token.p)
    ELSE IF t = "TOK_RETURN" THEN basic_handle_return(w1, s, token.p)
    ELSE IF t = "TOK_GOTO" THEN basic_handle_goto(w1, s, token.p)
    ELSE IF t = "TOK_READ" THEN basic_handle_read(w1, s, token.p)
    ELSE IF t = "TOK_DATA" THEN basic_handle_data(w1, s, token.p)
    ELSE IF t = "TOK_DIM" THEN basic_handle_dim(w1, s, token.p)
    ELSE IF t = "TOK_END" THEN basic_handle_end(w1, s, token.p)
    ELSE IF t = "TOK_STOP" THEN basic_handle_stop(w1, s, token.p)
    ELSE IF t = "TOK_REM" THEN basic_handle_rem(w1, s, token.p)
    ELSE Ret(0, basic_set_error(w1, ERR_SYNTAX))

FirstToken(w, s, token) == Dispatch(LexIn(w, token), s, token, token.type)

StatementFrom(w, s, p) ==
    IF Ch(s, p) = "" THEN Ret(1, w) ELSE FirstToken(w, s, basic_get_token(s, p))

executeStatement(w, s, p0) == StatementFrom(w, s, basic_skip_whitespace(s, p0))

\* ------------------------------------------------------------------------
\* Program table: the linked list of lines, head first.
\* ------------------------------------------------------------------------
Line(lineNumber, lineText) == [lineNumber |-> lineNumber, lineText |-> lineText]

\* while (current && current->lineNumber < lineNumber): the lines passed
RECURSIVE InsertAfter(_, _, _)
InsertAfter(lines, i, lineNumber) ==
    IF i < Len(lines) /\ lines[i + 1].lineNumber < lineNumber
    THEN InsertAfter(lines, i + 1, lineNumber)
    ELSE i

Inserted(lines, k, line) == SubSeq(lines, 1, k) \o <<line>> \o SubSeq(lines, k + 1, Len(lines))

\* previous->next = current->next: the old line is unlinked, and the new
\* line, which pointed at it, is no longer reachable from the head either
Unlinked(lines, k) == SubSeq(lines, 1, k) \o SubSeq(lines, k + 2, Len(lines))

\* addLine with k lines in front of the insertion point.  A duplicate of the
\* head line (k = 0) dereferences previous == NULL.
AddLineAt(st, lineNumber, lineText, k, dup) ==
    IF st.programSize + Len(lineText) + LINE_OVERHEAD > MAX_PROGRAM_SIZE
    THEN [ok |-> 0, crash |-> FALSE,
          st |-> [st EXCEPT !.errorCode = ERR_PROGRAM_TOO_LARGE]]
    ELSE IF dup /\ k = 0
    THEN [ok |-> 0, crash |-> TRUE,
          st |-> [st EXCEPT !.programLines = Inserted(@, k, Line(lineNumber, lineText))]]
    ELSE [ok |-> 1, crash |-> FALSE,
          st |-> [st EXCEPT !.programLines =
                                IF dup THEN Unlinked(@, k)
                                ELSE Inserted(@, k, Line(lineNumber, lineText)),
                            !.programSize = @ + Len(lineText) + LINE_OVERHEAD]]

AddLineFound(st, lineNumber, lineText, k) ==
    AddLineAt(st, lineNumber, lineText, k,
              k < Len(st.programLines) /\ st.programLines[k + 1].lineNumber = lineNumber)

addLine(st, lineNumber, lineText) ==
    AddLineFound(st, lineNumber, lineText, InsertAfter(st.programLines, 0, lineNumber))

\* ------------------------------------------------------------------------
\* Session
\* ------------------------------------------------------------------------
basic_init ==
    [programLines |-> <<>>, currentLineNumber |-> 0, programSize |-> 0,
     variables |-> <<>>, running |-> 0, errorCode |-> ERR_NONE,
     forStack |-> <<>>, gosubStack |-> <<>>, dataPointer |-> 0, dataCount |-> 0]

\* while (*ptr == '\n' || *ptr == '\r') ptr++
RECURSIVE SkipLineEnds(_, _)
SkipLineEnds(t, p) ==
    IF Ch(t, p) = "\n" \/ Ch(t, p) = "\r" THEN SkipLineEnds(t, p + 1) ELSE p

\* while (*ptr && *ptr != '\n' && *ptr != '\r') ptr++
RECURSIVE ScanLine(_, _)
ScanLine(t, p) ==
    IF Ch(t, p) # "" /\ Ch(t, p) # "\n" /\ Ch(t, p) # "\r" THEN ScanLine(t, p + 1) ELSE p

RECURSIVE LoadLoop(_, _, _)

LoadAdded(a, t, e) ==
    IF a.ok = 0 THEN a ELSE LoadLoop(a.st, t, e)

\* One turn of the loop, the cursor at p0: line ends are skipped up to p, the
\* line number n is read with no blank skipped before it, blanks and tabs
\* after it are skipped up to b, and the content runs from b up to e.
LoadLoop(st, t, p0) ==
    LET p == SkipLineEnds(t, p0)
        n == basic_parse_int(t, p)
        b == basic_skip_whitespace(t, n.p)
        e == ScanLine(t, b)
    IN  IF Ch(t, p) = "" THEN [ok |-> 1, crash |-> FALSE, st |-> st]
        ELSE IF ~isdigit(Ch(t, p))
        THEN [ok |-> 0, crash |-> FALSE, st |-> [st EXCEPT !.errorCode = ERR_SYNTAX]]
        ELSE IF e - b > MAX_LINE_LENGTH - 1
        THEN [ok |-> 0, crash |-> FALSE,
              st |-> [st EXCEPT !.errorCode = ERR_LINE_NOT_FOUND]]
        ELSE LoadAdded(addLine(st, n.v, SubSeq(t, b, e - 1)), t, e)

\* basic_load_program as it would be without the error of the session reset
LoadKeepingError(programText) ==
    LoadLoop([basic_init EXCEPT !.errorCode = ERR_SYNTAX], programText, 1)

basic_load_program(programText) == LoadLoop(basic_init, programText, 1)

\* ------------------------------------------------------------------------
\* The interpreter as a state machine: a client calls basic_init,
\* basic_load_program, basic_run_program and basic_execute_line on one
\* session, at most MaxCalls times.  basic_run_program is split at its loop:
\* RunBegin is the code before the loop, RunLine is one iteration.
\* ------------------------------------------------------------------------
MaxCalls == 3

\* the text of k program lines numbered from first upwards, each holding text
RECURSIVE Lines(_, _, _)
Lines(first, k, text) ==
    IF k = 0 THEN ""
    ELSE DecStr(first) \o " " \o text \o "\n" \o Lines(first + 1, k - 1, text)

Programs ==
    { "10 GOTO 30\n20 LET A = 1\n30 LET B = 2\n",
      "0 REM\n10 GOTO 30\n20 LET A = 1\n30 END\n",
      "10 FOR I=1 TO 5 STEP 2\n20 NEXT I\n",
      "0 REM\n10 GOSUB 30\n20 LET A = 1\n30 RETURN\n40 LET B = 2\n",
      "10 PRINT \"X = \"; 5\n\n20 LET X = 5\n30 IF X = 5 THEN END\n40 LET X = 6\n",
      "10 NEXT I\n20 LET A = 1\n",
      Lines(1, STACK_SIZE + 1, "FOR I=1 TO 2"),
      "0 REM\n" \o Lines(1, STACK_SIZE, "GOSUB 0") \o "40 NEXT\n",
      "10 LET A = 1\n10 LET A = 2\n",
      "20 LET A = 1\n10 LET B = 2\n30 LET C = 3\n20 LET A = 4\n",
      "10 REM\n20 STOP\n30 LET A = 1\n",
      "10 LET A = 1\nLET B = 2\n",
      " 10 REM\n",
      "10 DATA 5, 7\n20 READ A, B\n30 READ C\n" }

Statements ==
    { "LET A = 10", "LET B = 20", "LET C = A + B", "LET A = 3", "a = a + 1",
      "LET Y = 10 / 0", "LET Y = 10 / 0 + Q", "LET Y = 7",
      "DIM ARR(5)", "LET ARR(1) = 100", "PRINT ARR(1)", "PRINT ARR(6)", "DIM A(2)",
      "PRINT \"A=\"; A", "PRINT A;", "PRINT A, 2",
      "RETURN", "NEXT", "NEXT I", "FOR I = 1 TO 3",
      "GOSUB 10", "GOTO 999", "GOTO 30", "GOTO30",
      "LET D = ABS(-5)", "LET E = SGN(-5)", "#", "LET Y = Q / 0",
      "IF 1 THEN LET X = 1 ELSE LET X = 2", "IF 0 THEN LET X = 1 ELSE LET X = 2",
      "DIM M(2,3)", "DIM T(2,3,4)", "DIM F(2,3,4,5)",
      "READ 5", "DIM 5", "INPUT 5",
      "IF 1 THEN IF 1 THEN LET Z = 3",
      "XYYYYYYYYYYYYYYYYYYYYYYYYYYYYYYY = 1" }

VARIABLES
    state,        \* the BASICState of the session
    globalErr,    \* globalState.errorCode
    pc,           \* "idle" between calls, "run" inside the loop of
                  \* basic_run_program, "fill" while the caller fills the
                  \* variable store, or the fate of a call that never returned
    currentLine,  \* the local currentLine of basic_run_program (index, 0 = NULL)
    stdout,       \* what the latest call has printed
    call,         \* the latest call: its name, its text argument, and whether
                  \* the caller holds that text in storage that can be written
    result,       \* what the latest call returned (-1: it has not returned)
    trace,        \* the lines the latest run has executed, each with the
                  \* variables and the GOSUB stack as they were before it
                  \* and with what its statement returned
    calls         \* the number of calls made

vars == <<state, globalErr, pc, currentLine, stdout, call, result, trace, calls>>

World(st, out) ==
    [st |-> st, gErr |-> globalErr, out |-> out, inp |-> <<>>, nul |-> 0, fate |-> "ok"]

Init ==
    /\ state = basic_init
    /\ globalErr = ERR_NONE
    /\ pc = "idle"
    /\ currentLine = 0
    /\ stdout = ""
    /\ call = [op |-> "init", arg |-> "", writable |-> TRUE]
    /\ result = 1
    /\ trace = <<>>
    /\ calls = 0

Called(op, arg, writable) ==
    /\ pc = "idle"
    /\ calls < MaxCalls
    /\ calls' = calls + 1
    /\ call' = [op |-> op, arg |-> arg, writable |-> writable]

BasicInit ==
    /\ Called("init", "", TRUE)
    /\ state' = basic_init
    /\ result' = 1
    /\ stdout' = ""
    /\ UNCHANGED <<globalErr, pc, currentLine, trace>>

\* basic_load_program once the text is read (r)
Loaded(r) ==
    /\ state' = r.st
    /\ result' = IF r.crash THEN -1 ELSE r.ok
    /\ pc' = IF r.crash THEN "crash" ELSE "idle"
    /\ stdout' = ""
    /\ UNCHANGED <<globalErr, currentLine, trace>>

\* what basic_load_program makes of each text: it starts from basic_init,
\* so that nothing of the session it is called on enters the outcome
Loads == [programText \in Programs |-> basic_load_program(programText)]

LoadProgram(programText) ==
    /\ Called("load", programText, TRUE)
    /\ Loaded(Loads[programText])

RunBegin ==
    /\ Called("run", "", TRUE)
    /\ stdout' = ""
    /\ trace' = <<>>
    /\ IF state.programLines = <<>>
       THEN /\ state' = [state EXCEPT !.errorCode = ERR_SYNTAX]
            /\ result' = 0
            /\ UNCHANGED <<pc, currentLine>>
       ELSE /\ state' = [state EXCEPT !.running = 1, !.currentLineNumber = 0]
            /\ result' = -1
            /\ pc' = "run"
            /\ currentLine' = 1
    /\ UNCHANGED globalErr

\* the lexer's NUL cuts the text of the line being executed
Cut(lineText, nul) == IF nul = 0 THEN lineText ELSE SubSeq(lineText, 1, nul - 1)

\* One iteration as it would end if the loop went on to the next line of the
\* table after a statement that failed
IteratedPastFailure(r, st2, more) ==
    /\ globalErr' = r.w.gErr
    /\ stdout' = r.w.out
    /\ IF st2.running # 0 /\ currentLine < Len(st2.programLines)
       THEN /\ state' = st2
            /\ currentLine' = currentLine + 1
            /\ UNCHANGED <<pc, result>>
       ELSE /\ state' = [st2 EXCEPT !.running = 0]
            /\ pc' = "idle"
            /\ currentLine' = 0
            /\ result' = (IF st2.errorCode = ERR_NONE THEN 1 ELSE 0)

\* The rest of one iteration once the statement has returned (r), st2 being
\* the session it leaves: on to the next line of the table, or out of the
\* loop, running cleared, returning whether no error is recorded.
Iterated(r, st2, more) ==
    /\ globalErr' = r.w.gErr
    /\ stdout' = r.w.out
    /\ IF r.w.fate # "ok"
       THEN /\ state' = st2
            /\ pc' = r.w.fate
            /\ UNCHANGED <<currentLine, result>>
       ELSE IF more
       THEN /\ state' = st2
            /\ currentLine' = currentLine + 1
            /\ UNCHANGED <<pc, result>>
       ELSE /\ state' = [st2 EXCEPT !.running = 0]
            /\ pc' = "idle"
            /\ currentLine' = 0
            /\ result' = (IF st2.errorCode = ERR_NONE THEN 1 ELSE 0)

RunStatement(line, r) ==
    /\ trace' = Append(trace, [lineNumber |-> line.lineNumber, lineText |-> line.lineText,
                               ok |-> r.ok, variables |-> state.variables,
                               gosubStack |-> state.gosubStack])
    /\ Iterated(r, [r.w.st EXCEPT !.programLines[currentLine].lineText = Cut(@, r.w.nul)],
                r.ok # 0 /\ r.w.st.running # 0 /\ currentLine < Len(state.programLines))

RunAt(line) ==
    RunStatement(line,
        executeStatement(World([state EXCEPT !.currentLineNumber = line.lineNumber], stdout),
                         line.lineText, 1))

RunLine ==
    /\ pc = "run"
    /\ RunAt(state.programLines[currentLine])
    /\ UNCHANGED <<call, calls>>

\* basic_execute_line as it would be if it gave up the stored program
ExecutedDroppingProgram(r) ==
    /\ state' = [r.w.st EXCEPT !.programLines = <<>>, !.programSize = 0]
    /\ globalErr' = r.w.gErr
    /\ stdout' = r.w.out
    /\ pc' = IF r.w.fate = "ok" THEN "idle" ELSE r.w.fate
    /\ result' = IF r.w.fate = "ok" THEN r.ok ELSE -1
    /\ UNCHANGED <<currentLine, trace>>

\* basic_execute_line once the statement has returned (r)
Executed(r) ==
    /\ state' = r.w.st
    /\ globalErr' = r.w.gErr
    /\ stdout' = r.w.out
    /\ pc' = IF r.w.fate = "ok" THEN "idle" ELSE r.w.fate
    /\ result' = IF r.w.fate = "ok" THEN r.ok ELSE -1
    /\ UNCHANGED <<currentLine, trace>>

\* basic_get_token writes into the text it is reading: a NUL after a name,
\* put back once the name is copied, and a NUL over the closing quote of a
\* string.
Writes(tok) ==
    tok.ok /\ (IF tok.type = "TOK_STRING" THEN tok.nul # 0 ELSE tok.str # "")

\* The first token of the statement is one the lexer writes for.  A statement
\* whose first token is any other is rejected without another token read.
WritesFirst(lineText, p) == Ch(lineText, p) # "" /\ Writes(basic_get_token(lineText, p))

\* basic_execute_line faults at that first write, before anything of the
\* session has changed
Faulted ==
    /\ pc' = "crash"
    /\ result' = -1
    /\ stdout' = ""
    /\ UNCHANGED <<state, globalErr, currentLine, trace>>

\* The text is the caller's: the run loop passes the line it allocated, a
\* caller of basic_execute_line may pass a string literal, and writing to one
\* is undefined (a fault where literals are kept read-only).
ExecuteLine(lineText, writable) ==
    /\ Called("executeLine", lineText, writable)
    /\ IF ~writable /\ WritesFirst(lineText, basic_skip_whitespace(lineText, 1))
       THEN Faulted
       ELSE Executed(executeStatement(World(state, ""), lineText, 1))

\* the statement that creates the k-th variable of a full store
FillText(k) == "LET V" \o DecStr(k) \o " = 1"

\* A caller that starts by filling the variable store: MAX_VARIABLES calls of
\* basic_execute_line in a row, each a LET on a name of its own, one call a
\* step.  The row counts as one call of the session.
Filling(r) ==
    /\ state' = r.w.st
    /\ globalErr' = r.w.gErr
    /\ stdout' = r.w.out
    /\ result' = r.ok
    /\ pc' = IF Len(r.w.st.variables) < MAX_VARIABLES THEN "fill" ELSE "idle"
    /\ UNCHANGED <<currentLine, trace>>

FillLine ==
    /\ IF pc = "idle" THEN calls = 0 /\ calls' = 1 ELSE pc = "fill" /\ calls' = calls
    /\ call' = [op |-> "executeLine", arg |-> FillText(Len(state.variables) + 1),
                writable |-> TRUE]
    /\ Filling(executeStatement(World(state, ""), FillText(Len(state.variables) + 1), 1))

Next ==
    \/ BasicInit
    \/ FillLine
    \/ \E programText \in Programs : LoadProgram(programText)
    \/ RunBegin
    \/ RunLine
    \/ \E lineText \in Statements, writable \in BOOLEAN : ExecuteLine(lineText, writable)

Spec == Init /\ [][Next]_vars

\* ------------------------------------------------------------------------
\* Properties
\* ------------------------------------------------------------------------
\* The statement a step executes: the line the run loop is at, or the text
\* basic_execute_line is called with; "" when the step executes none, as when
\* the call faults reading the first token of a text it cannot write to.
Executing ==
    IF pc = "run" THEN state.programLines[currentLine].lineText
    ELSE IF /\ call'.op = "executeLine"
            /\ calls' = calls + 1
            /\ (call'.writable \/ pc' # "crash")
    THEN call'.arg
    ELSE ""

\* what the statement of the step returned
Returned == IF pc = "run" THEN trace'[Len(trace')].ok ELSE result'

HasLine(lines, n) == \E i \in 1..Len(lines) : lines[i].lineNumber = n

StartsWith(text, word) ==
    Len(text) >= Len(word) /\ SubSeq(text, 1, Len(word)) = word

\* the number written after the keyword of a GOTO or GOSUB statement
TargetOf(text, word) ==
    basic_parse_int(text, basic_skip_whitespace(text, Len(word) + 1)).v

\* the value of the variable called name in the store V, and whether it reads
ValueIn(V, name) == basic_get_variable_value(V, ERR_NONE, name)

\* the entry of the variable called name in the store V
EntryIn(V, name) ==
    IF basic_find_variable(V, name) = 0 THEN <<>>
    ELSE <<V[basic_find_variable(V, name)]>>

\* the target and the expression of the statement LET <name> = <expression>
LetTarget(text) == ParseName(text, basic_skip_whitespace(text, 4)).name
LetExpression(V, text) ==
    basic_evaluate_expression(V, text,
        basic_skip_whitespace(text, ParseName(text, basic_skip_whitespace(text, 4)).p) + 1,
        ERR_NONE)

\* C1: during a run, when a line executes GOTO n and the program has a line
\* n, the line executed next is line n.
C1_GotoNextLineIsTarget ==
    call.op = "run" =>
        \A i \in 1..(Len(trace) - 1) :
            (/\ StartsWith(trace[i].lineText, "GOTO ")
             /\ HasLine(state.programLines, TargetOf(trace[i].lineText, "GOTO")))
            => trace[i + 1].lineNumber = TargetOf(trace[i].lineText, "GOTO")

\* the values of I at each execution of line 20 in the run
RECURSIVE ValuesAtLine20(_)
ValuesAtLine20(t) ==
    IF t = <<>> THEN <<>>
    ELSE (IF Head(t).lineNumber = 20
          THEN <<ValueIn(Head(t).variables, "I").v>> ELSE <<>>)
         \o ValuesAtLine20(Tail(t))

\* C2: the run of 10 FOR I=1 TO 5 STEP 2 / 20 NEXT I goes through the loop
\* with I = 1, 3 and 5 and then ends past line 20 with the FOR stack empty.
C2_ForLoopIterates ==
    (/\ call.op = "run"
     /\ pc = "idle"
     /\ state.programLines = <<Line(10, "FOR I=1 TO 5 STEP 2"), Line(20, "NEXT I")>>)
    => /\ ValuesAtLine20(trace) = <<Num(1), Num(3), Num(5)>>
       /\ state.forStack = <<>>

\* the number of the line that follows line n in the table
FollowingLine(lines, n) ==
    lines[(CHOOSE i \in 1..Len(lines) : lines[i].lineNumber = n) + 1].lineNumber

\* entry j of the trace is the RETURN that takes the entry pushed by the GOSUB
\* at entry i
Returns(i, j) ==
    /\ i < j
    /\ StartsWith(trace[i].lineText, "GOSUB ")
    /\ trace[i].ok = 1
    /\ StartsWith(trace[j].lineText, "RETURN")
    /\ trace[j].ok = 1
    /\ Len(trace[j].gosubStack) = Len(trace[i].gosubStack) + 1
    /\ \A k \in (i + 1)..j : Len(trace[k].gosubStack) > Len(trace[i].gosubStack)

\* C3: after GOSUB on line L and the RETURN that matches it, the run resumes
\* at the line following L, the GOSUB stack as deep as before the GOSUB.
C3_ReturnResumesAfterGosub ==
    call.op = "run" =>
        \A i \in 1..Len(trace) : \A j \in 1..(Len(trace) - 1) :
            Returns(i, j) =>
                /\ trace[j + 1].lineNumber
                       = FollowingLine(state.programLines, trace[i].lineNumber)
                /\ Len(trace[j + 1].gosubStack) = Len(trace[i].gosubStack)

\* C4: with no error recorded, GOTO n fails with the line-not-found error
\* exactly when the program has no line n, and succeeds when it has one.
C4_GotoFailsIffLineMissing ==
    [][ (/\ StartsWith(Executing, "GOTO ")
         /\ state.errorCode = ERR_NONE)
        => IF HasLine(state.programLines, TargetOf(Executing, "GOTO"))
           THEN Returned = 1
           ELSE Returned = 0 /\ state'.errorCode = ERR_LINE_NOT_FOUND ]_vars

\* C5: a LET whose expression divides by zero fails, records the
\* division-by-zero error and leaves its target variable as it was.
C5_LetDivisionByZero ==
    [][ (/\ StartsWith(Executing, "LET ")
         /\ state.errorCode = ERR_NONE
         /\ LetExpression(state.variables, Executing).dz)
        => /\ Returned = 0
           /\ state'.errorCode = ERR_DIVISION_BY_ZERO
           /\ EntryIn(state'.variables, LetTarget(Executing))
                  = EntryIn(state.variables, LetTarget(Executing)) ]_vars

\* C6: a LET v = e that succeeds with no error recorded before it leaves v
\* reading as the value e had over the variables before it, and every other
\* variable as it was.
C6_LetStoresValue ==
    [][ (/\ StartsWith(Executing, "LET ")
         /\ state.errorCode = ERR_NONE
         /\ Returned = 1)
        => /\ ValueIn(state'.variables, LetTarget(Executing))
                  = [v |-> LetExpression(state.variables, Executing).v, err |-> ERR_NONE]
           /\ \A i \in 1..Len(state.variables) :
                  state.variables[i].name # LetTarget(Executing)
                  => state'.variables[i] = state.variables[i] ]_vars

\* ARR is declared by DIM ARR(5) and no error is recorded
ArrDeclared ==
    /\ state.errorCode = ERR_NONE
    /\ EntryIn(state.variables, "ARR") # <<>>
    /\ EntryIn(state.variables, "ARR")[1].type = "VAR_ARRAY_NUMERIC"
    /\ EntryIn(state.variables, "ARR")[1].dims = <<5>>

\* C7: after DIM ARR(5), LET ARR(1) = 100 succeeds and reading ARR(6) fails
\* with the array-bounds error.
C7_ArrayElements ==
    [][ ArrDeclared
        => /\ Executing = "LET ARR(1) = 100" => Returned = 1
           /\ Executing = "PRINT ARR(6)"
              => Returned = 0 /\ state'.errorCode = ERR_ARRAY_BOUNDS ]_vars

\* C8: PRINT "A="; A, whose last item is not ';', prints A=, the value of A
\* with six decimals, and a newline: A=3.000000 and a newline when A is 3.
C8_PrintEndsWithNewline ==
    (/\ call.op = "executeLine"
     /\ call.arg = "PRINT \"A=\"; A"
     /\ result = 1)
    => stdout = "A=" \o FormatF6(ValueIn(state.variables, "A").v) \o "\n"

\* C9: RETURN with the GOSUB stack empty fails, records an error of a kind
\* of its own (not the generic syntax error) and leaves the stack empty.
C9_ReturnWithoutGosub ==
    [][ (Executing = "RETURN" /\ state.gosubStack = <<>>)
        => /\ Returned = 0
           /\ state'.errorCode \notin {ERR_NONE, ERR_SYNTAX}
           /\ state'.gosubStack = <<>> ]_vars

\* C10: NEXT with the FOR stack empty, with a variable name or without,
\* fails, records ERR_NEXT_WITHOUT_FOR, leaves the stack empty and changes
\* no variable.
C10_NextWithoutFor ==
    [][ (Executing \in {"NEXT", "NEXT I"} /\ state.forStack = <<>>)
        => /\ Returned = 0
           /\ state'.errorCode = ERR_NEXT_WITHOUT_FOR
           /\ state'.forStack = <<>>
           /\ state'.variables = state.variables ]_vars

\* C10 happens: NEXT was executed in a session that has a variable and no
\* open FOR, and it failed with ERR_NEXT_WITHOUT_FOR.
C10_NextWithoutFor_Witness ==
    /\ call.op = "executeLine"
    /\ call.arg \in {"NEXT", "NEXT I"}
    /\ result = 0
    /\ state.errorCode = ERR_NEXT_WITHOUT_FOR
    /\ state.forStack = <<>>
    /\ state.variables # <<>>

\* C11: both control stacks stay within 0..32 in every state, and a FOR or a
\* GOSUB executed with its stack at depth 32 fails, records the
\* stack-overflow error and leaves that depth at 32.
C11_StackDepthBounded ==
    [][ /\ Len(state'.forStack) \in 0..STACK_SIZE
        /\ Len(state'.gosubStack) \in 0..STACK_SIZE
        /\ (StartsWith(Executing, "FOR ") /\ Len(state.forStack) = STACK_SIZE)
           => /\ Returned = 0
              /\ state'.errorCode = ERR_STACK_OVERFLOW
              /\ Len(state'.forStack) = STACK_SIZE
        /\ (StartsWith(Executing, "GOSUB ") /\ Len(state.gosubStack) = STACK_SIZE)
           => /\ Returned = 0
              /\ state'.errorCode = ERR_STACK_OVERFLOW
              /\ Len(state'.gosubStack) = STACK_SIZE ]_vars

\* C12: whatever was executed or run before, a basic_load_program that
\* succeeds leaves the session with no variable, both control stacks empty,
\* no error recorded, the running flag clear and the DATA cursor where
\* basic_init puts it.
C12_LoadResetsSession ==
    (call.op = "load" /\ result = 1)
    => /\ state.variables = <<>>
       /\ state.forStack = <<>>
       /\ state.gosubStack = <<>>
       /\ state.errorCode = ERR_NONE
       /\ state.running = 0
       /\ state.currentLineNumber = 0
       /\ state.dataPointer = basic_init.dataPointer
       /\ state.dataCount = basic_init.dataCount

\* C12 happens: a program was loaded with success after a run that had
\* created variables and had ended on a failed statement.
C12_LoadResetsSession_Witness ==
    /\ call.op = "load"
    /\ result = 1
    /\ state.programLines # <<>>
    /\ trace # <<>>
    /\ trace[Len(trace)].ok = 0
    /\ \E i \in 1..Len(trace) : trace[i].variables # <<>>

Increasing(lines) ==
    \A i \in 1..(Len(lines) - 1) : lines[i].lineNumber < lines[i + 1].lineNumber

\* C13: whatever text is loaded, with its lines in any order and with line
\* numbers repeated, the load delivers a table whose line numbers are
\* strictly increasing, so that no number appears twice.
C13_TableStrictlyIncreasing ==
    (call.op = "load") => (result # -1 /\ Increasing(state.programLines))

\* the part of C13 that holds: every load that returns leaves the table
\* strictly increasing
C13_ReturnedLoadIncreasing ==
    (call.op = "load" /\ result # -1) => Increasing(state.programLines)

\* the numbered lines a program text gives, in the order of the text
RECURSIVE Given(_, _)
Given(t, p0) ==
    LET p == SkipLineEnds(t, p0)
        n == basic_parse_int(t, p)
        b == basic_skip_whitespace(t, n.p)
        e == ScanLine(t, b)
    IN  IF ~isdigit(Ch(t, p)) THEN <<>>
        ELSE <<Line(n.v, SubSeq(t, b, e - 1))>> \o Given(t, e)

Repeats(given) ==
    \E i, j \in 1..Len(given) : i < j /\ given[i].lineNumber = given[j].lineNumber

\* the text given last for the number of given[i]
NewestText(given, i) ==
    LET last == CHOOSE j \in i..Len(given) :
                    /\ given[j].lineNumber = given[i].lineNumber
                    /\ \A k \in (j + 1)..Len(given) : given[k].lineNumber # given[i].lineNumber
    IN  given[last].lineText

HoldsOnce(lines, n, text) ==
    /\ Cardinality({k \in 1..Len(lines) : lines[k].lineNumber = n}) = 1
    /\ \E k \in 1..Len(lines) : lines[k].lineNumber = n /\ lines[k].lineText = text

Replaced(lines, given) ==
    \A i \in 1..Len(given) : HoldsOnce(lines, given[i].lineNumber, NewestText(given, i))

\* C14: after loading a text that repeats a line number, at the head of the
\* table or elsewhere, the table holds every number of the text exactly once,
\* the repeated number with the text given last, and every other line of the
\* text is still there.
C14_RepeatedLineReplaced ==
    (call.op = "load" /\ Repeats(Given(call.arg, 1)))
    => Replaced(state.programLines, Given(call.arg, 1))

\* C14 restricted to the loads that return success
C14_ReturnedLoadReplaced ==
    (call.op = "load" /\ result = 1 /\ Repeats(Given(call.arg, 1)))
    => Replaced(state.programLines, Given(call.arg, 1))

\* basic_run_program has returned from its loop
RunReturned == call.op = "run" /\ pc = "idle" /\ trace # <<>>

NoStatementFailed == \A i \in 1..Len(trace) : trace[i].ok # 0

\* C15: a run of a loaded program returns success exactly when none of the
\* statements it executed failed, whatever error an earlier
\* basic_execute_line had recorded in the session.
C15_RunSucceedsIffNoFailure ==
    RunReturned => (result = 1 <=> NoStatementFailed)

\* the part of C15 that holds: a run in which a statement failed returns
\* failure
C15_FailedStatementFailsRun ==
    (RunReturned /\ ~NoStatementFailed) => result = 0

\* C16: once a statement has failed during basic_run_program it is the last
\* line that run executes: the loop is left, the running flag is cleared, the
\* error is still recorded and the run has returned failure.
C16_FailureEndsRun ==
    (call.op = "run" /\ ~NoStatementFailed)
    => /\ \A i \in 1..Len(trace) : trace[i].ok = 0 => i = Len(trace)
       /\ pc = "idle"
       /\ state.running = 0
       /\ state.errorCode # ERR_NONE
       /\ result = 0

\* C16 happens: a run has ended on a failed statement with lines of the
\* table behind that statement left unexecuted.
C16_FailureEndsRun_Witness ==
    /\ call.op = "run"
    /\ pc = "idle"
    /\ trace # <<>>
    /\ trace[Len(trace)].ok = 0
    /\ \E k \in 1..Len(state.programLines) :
          state.programLines[k].lineNumber > trace[Len(trace)].lineNumber

EndsWith(text, word) ==
    Len(text) >= Len(word) /\ SubSeq(text, Len(text) - Len(word) + 1, Len(text)) = word

\* text is an END or a STOP statement, or an IF statement whose condition is
\* true with the variables V and whose THEN-part is END or STOP
Halts(V, text) ==
    \/ text = "END"
    \/ text = "STOP"
    \/ /\ StartsWith(text, "IF ")
       /\ EndsWith(text, " THEN END") \/ EndsWith(text, " THEN STOP")
       /\ basic_evaluate_expression(V, text, 4, ERR_NONE).v # Num(0)

\* C17: when a line of a run executes END or STOP, as the whole statement or
\* as the THEN-part of an IF whose condition is true, the running flag is
\* cleared and the run is over with that line: no line after it is executed.
C17_EndStopsRun ==
    [][ (pc = "run" /\ Halts(state.variables, Executing) /\ Returned = 1)
        => /\ state'.running = 0
           /\ pc' = "idle"
           /\ result' \in {0, 1} ]_vars

\* C17 happens: a run is over after an IF with a true condition has executed
\* END, with a line of the table behind it that was not executed.
C17_EndStopsRun_Witness ==
    /\ call.op = "run"
    /\ pc = "idle"
    /\ state.running = 0
    /\ trace # <<>>
    /\ trace[Len(trace)].ok = 1
    /\ StartsWith(trace[Len(trace)].lineText, "IF ")
    /\ Halts(trace[Len(trace)].variables, trace[Len(trace)].lineText)
    /\ \E k \in 1..Len(state.programLines) :
          state.programLines[k].lineNumber > trace[Len(trace)].lineNumber

\* C18: a name of several letters followed by ( is read as a function name:
\* LET D = ABS(-5) succeeds and leaves D = 5, and LET E = SGN(-5) succeeds
\* and leaves E = -1.
C18_FunctionCallEvaluated ==
    [][ /\ (Executing = "LET D = ABS(-5)")
           => (Returned = 1 /\ ValueIn(state'.variables, "D").v = Num(5))
        /\ (Executing = "LET E = SGN(-5)")
           => (Returned = 1 /\ ValueIn(state'.variables, "E").v = Num(0 - 1)) ]_vars

\* every logical line of the text t from p0 on that is not empty begins with
\* a decimal digit
RECURSIVE AllNumbered(_, _)
AllNumbered(t, p0) ==
    LET p == SkipLineEnds(t, p0)
    IN  IF Ch(t, p) = "" THEN TRUE
        ELSE isdigit(Ch(t, p)) /\ AllNumbered(t, ScanLine(t, p))

\* C19: basic_load_program returns failure, with an error recorded, when some
\* line of the text that is not blank does not begin with a decimal digit,
\* and returns success when every such line begins with a line number.
C19_LoadFailsIffLineUnnumbered ==
    (call.op = "load")
    => IF AllNumbered(call.arg, 1) THEN result = 1
       ELSE result = 0 /\ state.errorCode # ERR_NONE

\* the part of C19 that holds: the same, for the texts that repeat no line
\* number and have no line beyond the line buffer
C19_LoadOfDistinctNumbers ==
    (/\ call.op = "load"
     /\ ~Repeats(Given(call.arg, 1))
     /\ \A i \in 1..Len(Given(call.arg, 1)) :
            Len(Given(call.arg, 1)[i].lineText) < MAX_LINE_LENGTH)
    => IF AllNumbered(call.arg, 1) THEN result = 1
       ELSE result = 0 /\ state.errorCode = ERR_SYNTAX

\* the variable called name exists in the store V and is an array
IsArray(V, name) ==
    EntryIn(V, name) # <<>> /\ EntryIn(V, name)[1].type = "VAR_ARRAY_NUMERIC"

\* text has the form LET <name> = ..., the name followed by the equals sign
LetAssignsName(text) ==
    Ch(text, basic_skip_whitespace(text,
                 ParseName(text, basic_skip_whitespace(text, 4)).p)) = "="

\* C20: a LET whose target is the name of an existing array returns failure
\* and records the type-mismatch error.
C20_LetOnArrayFails ==
    [][ (/\ StartsWith(Executing, "LET ")
         /\ LetAssignsName(Executing)
         /\ IsArray(state.variables, LetTarget(Executing)))
        => (Returned = 0 /\ state'.errorCode = ERR_TYPE_MISMATCH) ]_vars

\* C21: the run of 10 DATA 5, 7 / 20 READ A, B / 30 READ C reads 5 into A
\* and 7 into B, in the order of the DATA statement, and fails at line 30,
\* where no DATA value is left to read.
C21_ReadTakesDataInOrder ==
    (/\ call.op = "run"
     /\ pc = "idle"
     /\ state.programLines =
            <<Line(10, "DATA 5, 7"), Line(20, "READ A, B"), Line(30, "READ C")>>)
    => /\ ValueIn(state.variables, "A").v = Num(5)
       /\ ValueIn(state.variables, "B").v = Num(7)
       /\ trace[Len(trace)].lineNumber = 30
       /\ trace[Len(trace)].ok = 0
       /\ state.errorCode # ERR_NONE
       /\ result = 0

\* the name a LET, FOR or DIM statement introduces is not in the store V
\* (the three keywords are as long, so that LetTarget finds the name of each)
NewName(V, text) ==
    /\ StartsWith(text, "LET ") \/ StartsWith(text, "FOR ") \/ StartsWith(text, "DIM ")
    /\ LetTarget(text) # ""
    /\ EntryIn(V, LetTarget(text)) = <<>>

\* C22: the store never holds more than 256 variables, and a LET, FOR or DIM
\* on a new name executed with 256 variables in the store and no error
\* recorded returns failure, records the out-of-memory error and leaves the
\* 256 variables as they were.
C22_VariableStoreBounded ==
    [][ /\ Len(state'.variables) <= MAX_VARIABLES
        /\ (/\ Len(state.variables) = MAX_VARIABLES
            /\ state.errorCode = ERR_NONE
            /\ NewName(state.variables, Executing))
           => /\ Returned = 0
              /\ state'.errorCode = ERR_OUT_OF_MEMORY
              /\ state'.variables = state.variables ]_vars

\* the part of C22 that holds: the store never grows past 256 variables, a
\* statement executed on a full store leaves the variables it holds as they
\* were when it names a new one, and DIM of a new name fails with the
\* out-of-memory error
C22_FullStoreKept ==
    [][ /\ Len(state'.variables) <= MAX_VARIABLES
        /\ (/\ Len(state.variables) = MAX_VARIABLES
            /\ state.errorCode = ERR_NONE
            /\ NewName(state.variables, Executing))
           => /\ state'.variables = state.variables
              /\ StartsWith(Executing, "DIM ")
                 => (Returned = 0 /\ state'.errorCode = ERR_OUT_OF_MEMORY) ]_vars

UniqueNames(V) == \A i, j \in 1..Len(V) : V[i].name = V[j].name => i = j

\* the variables of V are in W under their names, each of the kind it had
KindsKept(V, W) ==
    \A i \in 1..Len(V) :
        \E j \in 1..Len(W) : W[j].name = V[i].name /\ W[j].type = V[i].type

\* C23: no two variables of the store ever have the same name, also after a
\* DIM of a name that exists already, and a statement never changes the kind
\* of a variable that exists.
C23_NamesUniqueKindsFixed ==
    [][ /\ UniqueNames(state'.variables)
        /\ (Executing # "") => KindsKept(state.variables, state'.variables) ]_vars

\* the part of C23 that holds: every variable keeps its place, its name and
\* its kind through every statement
C23_KindsFixed ==
    [][ (Executing # "")
        => \A i \in 1..Len(state.variables) :
              /\ i <= Len(state'.variables)
              /\ state'.variables[i].name = state.variables[i].name
              /\ state'.variables[i].type = state.variables[i].type ]_vars

\* C24: no call made on the session changes anything of another session;
\* the error code of the default session, globalState, is what it was.
C24_OtherSessionUntouched ==
    [][globalErr' = globalErr]_vars

\* the names written in the text s from p on
RECURSIVE NamesFrom(_, _)
NamesFrom(s, p) ==
    IF Ch(s, p) = "" THEN {}
    ELSE IF basic_is_alpha(Ch(s, p))
    THEN {ParseName(s, p).name} \cup NamesFrom(s, ParseName(s, p).p)
    ELSE NamesFrom(s, p + 1)

\* text is LET <name> = <expression> and the expression names a variable
\* that is not in the store V
LetReadsUndefined(V, text) ==
    /\ StartsWith(text, "LET ")
    /\ LetAssignsName(text)
    /\ \E name \in NamesFrom(text, basic_skip_whitespace(text,
                       ParseName(text, basic_skip_whitespace(text, 4)).p) + 1) :
          EntryIn(V, name) = <<>>

\* C25: a LET whose expression names a variable that is not in the store
\* returns failure with the undefined-variable error recorded, and the store
\* is as it was: the variable is not created and the target is not assigned.
C25_UndefinedVariableFails ==
    [][ LetReadsUndefined(state.variables, Executing)
        => /\ Returned = 0
           /\ state'.errorCode = ERR_UNDEFINED_VARIABLE
           /\ state'.variables = state.variables ]_vars

\* the part of C25 that holds: the statement fails, an error is recorded
\* and the store is as it was
C25_UndefinedVariableKeepsStore ==
    [][ LetReadsUndefined(state.variables, Executing)
        => /\ Returned = 0
           /\ state'.errorCode # ERR_NONE
           /\ state'.variables = state.variables ]_vars

\* no error is recorded and the variable store has room
Roomy == state.errorCode = ERR_NONE /\ Len(state.variables) < MAX_VARIABLES

\* C26: with no error recorded and room in the store,
\* IF 1 THEN LET X = 1 ELSE LET X = 2 succeeds and leaves X = 1, and
\* IF 0 THEN LET X = 1 ELSE LET X = 2 succeeds and leaves X = 2: the part
\* after ELSE is executed when the condition is zero.
C26_IfThenElse ==
    [][ /\ (Roomy /\ Executing = "IF 1 THEN LET X = 1 ELSE LET X = 2")
           => (Returned = 1 /\ ValueIn(state'.variables, "X") = [v |-> Num(1), err |-> ERR_NONE])
        /\ (Roomy /\ Executing = "IF 0 THEN LET X = 1 ELSE LET X = 2")
           => (Returned = 1 /\ ValueIn(state'.variables, "X") = [v |-> Num(2), err |-> ERR_NONE])
      ]_vars

\* the part of C26 that holds: the THEN-part is executed, and the ELSE-part
\* is not, when the condition is not zero
C26_IfThen ==
    [][ (Roomy /\ Executing = "IF 1 THEN LET X = 1 ELSE LET X = 2")
        => (Returned = 1 /\ ValueIn(state'.variables, "X") = [v |-> Num(1), err |-> ERR_NONE])
      ]_vars

\* C27: a call of basic_execute_line leaves the stored program as it was,
\* line numbers, texts and size, whatever the statement and whether the call
\* returns success, returns failure or never returns.
C27_ExecuteLineKeepsProgram ==
    [][ (call'.op = "executeLine")
        => /\ state'.programLines = state.programLines
           /\ state'.programSize = state.programSize ]_vars

\* C27 happens: GOTO 30 was executed by basic_execute_line with success on a
\* session whose program has a line 30.
C27_ExecuteLineKeepsProgram_Witness ==
    /\ call.op = "executeLine"
    /\ call.arg = "GOTO 30"
    /\ result = 1
    /\ HasLine(state.programLines, 30)

\* the step has appended to the store the numeric array called name with
\* the extents dims
Dimensioned(name, dims) ==
    /\ Returned = 1
    /\ state'.variables = Append(state.variables,
                                 [name |-> name, type |-> "VAR_ARRAY_NUMERIC",
                                  dims |-> dims, size |-> Len(dims), num |-> Num(0)])

\* C28: with no error recorded and room in the store, DIM A(2), DIM M(2,3)
\* and DIM T(2,3,4) each succeed and create the numeric array with exactly
\* those extents, and DIM F(2,3,4,5), with a fourth extent, fails and
\* creates nothing.
C28_DimExtents ==
    [][ Roomy =>
        /\ (Executing = "DIM A(2)") => Dimensioned("A", <<2>>)
        /\ (Executing = "DIM M(2,3)") => Dimensioned("M", <<2, 3>>)
        /\ (Executing = "DIM T(2,3,4)") => Dimensioned("T", <<2, 3, 4>>)
        /\ (Executing = "DIM F(2,3,4,5)")
           => (Returned = 0 /\ state'.variables = state.variables) ]_vars

\* the part of C28 that holds: one and two extents are accepted, four are
\* rejected
C28_DimOneOrTwoExtents ==
    [][ Roomy =>
        /\ (Executing = "DIM A(2)") => Dimensioned("A", <<2>>)
        /\ (Executing = "DIM M(2,3)") => Dimensioned("M", <<2, 3>>)
        /\ (Executing = "DIM F(2,3,4,5)")
           => (Returned = 0 /\ state'.variables = state.variables) ]_vars

\* the latest call is a basic_execute_line that returned failure and left an
\* error recorded
ExecuteLineFailed ==
    call.op = "executeLine" /\ pc = "idle" /\ result = 0 /\ state.errorCode # ERR_NONE

\* C29: after a basic_execute_line that failed and recorded an error, the
\* well-formed statements LET Y = 7 and LET B = 20, executed next on the same
\* session with room in the store, succeed and store their value.
C29_ErrorDoesNotOutliveCall ==
    [][ (ExecuteLineFailed /\ Len(state.variables) < MAX_VARIABLES) =>
        /\ (Executing = "LET Y = 7")
           => (Returned = 1 /\ ValueIn(state'.variables, "Y").v = Num(7))
        /\ (Executing = "LET B = 20")
           => (Returned = 1 /\ ValueIn(state'.variables, "B").v = Num(20)) ]_vars

\* C30: no call of basic_execute_line ends in a loop that goes round without
\* advancing through the text: the list loops of PRINT, INPUT, READ and DIM
\* consume a character or exit at every turn, whatever the item.
C30_ExecuteLineTerminates ==
    pc # "hang"

\* C31: a GOSUB that fails with the line-not-found error leaves the GOSUB
\* stack as it was before the statement, and so does a RETURN that fails
\* because the line it pops is not in the program.
C31_FailedGosubKeepsStack ==
    [][ (/\ \/ StartsWith(Executing, "GOSUB") /\ state.errorCode = ERR_NONE
            \/ Executing = "RETURN" /\ state.gosubStack # <<>>
         /\ Returned = 0
         /\ state'.errorCode = ERR_LINE_NOT_FOUND)
        => state'.gosubStack = state.gosubStack ]_vars

\* the RETURN half of C31 alone
C31_FailedReturnKeepsStack ==
    [][ (/\ Executing = "RETURN" /\ state.gosubStack # <<>>
         /\ Returned = 0
         /\ state'.errorCode = ERR_LINE_NOT_FOUND)
        => state'.gosubStack = state.gosubStack ]_vars

\* C32: when basic_load_program returns failure, no line of the text it
\* rejected is installed: the program table is empty.
C32_FailedLoadInstallsNothing ==
    (call.op = "load" /\ result = 0) => state.programLines = <<>>

\* what follows the first THEN of text, looked for from i on
RECURSIVE AfterThen(_, _)
AfterThen(text, i) ==
    IF i + 5 > Len(text) THEN ""
    ELSE IF SubSeq(text, i, i + 5) = " THEN " THEN SubSeq(text, i + 6, Len(text))
    ELSE AfterThen(text, i + 1)

\* the step is a basic_execute_line of an IF ... THEN ... statement whose
\* condition evaluates, without an error, to zero (zero = TRUE) or to a
\* value that is not zero (zero = FALSE)
IfExecuted(zero) ==
    /\ pc = "idle"
    /\ StartsWith(Executing, "IF ")
    /\ AfterThen(Executing, 1) # ""
    /\ basic_evaluate_expression(state.variables, Executing, 4, ERR_NONE).err = ERR_NONE
    /\ (basic_evaluate_expression(state.variables, Executing, 4, ERR_NONE).v = Num(0)) = zero

\* the step has the result and the effect on the session of executing text
\* as a statement
SameAs(text) ==
    /\ Returned = executeStatement(World(state, ""), text, 1).ok
    /\ state' = executeStatement(World(state, ""), text, 1).w.st

\* C33: an IF whose condition is zero returns success and leaves the session
\* (variables, both stacks, running flag, recorded error) as it was,
\* whatever follows THEN; an IF whose condition is not zero has the result
\* and the effect of the text after THEN executed as a statement.
C33_IfFrame ==
    [][ /\ IfExecuted(TRUE) => (Returned = 1 /\ state' = state)
        /\ IfExecuted(FALSE) => SameAs(AfterThen(Executing, 1)) ]_vars

\* the part of C33 that holds: the same, on a session with no error recorded
C33_IfFrameWithoutError ==
    [][ (state.errorCode = ERR_NONE) =>
        /\ IfExecuted(TRUE) => (Returned = 1 /\ state' = state)
        /\ IfExecuted(FALSE) => SameAs(AfterThen(Executing, 1)) ]_vars

\* ------------------------------------------------------------------------
\* The expression evaluator on its own: expressions of three integer
\* operands and two binary operators

MaxOperand == 4

Expressions ==
    [a : (0 - MaxOperand) .. MaxOperand,
     op1 : {"*", "/", "+", "-", "=", "<", "<=", "<>", ">", ">="},
     b : (0 - MaxOperand) .. MaxOperand,
     op2 : {"*", "/", "+", "-", "=", "<", "<=", "<>", ">", ">="},
     c : (0 - MaxOperand) .. MaxOperand]

\* an operand as it is written: a negative one with a unary minus
OperandText(k) == IF k < 0 THEN "-" \o DecStr(0 - k) ELSE DecStr(k)

ExpressionText(e) ==
    OperandText(e.a) \o " " \o e.op1 \o " " \o OperandText(e.b)
        \o " " \o e.op2 \o " " \o OperandText(e.c)

InitEvaluate ==
    /\ state = basic_init
    /\ globalErr = ERR_NONE
    /\ pc = "idle"
    /\ currentLine = 0
    /\ stdout = ""
    /\ call \in [op : {"evaluate"}, arg : Expressions, writable : {TRUE}]
    /\ result = 1
    /\ trace = <<>>
    /\ calls = 0

\* the value and the cursor come back in result, the error in the session
Evaluate ==
    /\ pc = "idle"
    /\ calls = 0
    /\ pc' = "done"
    /\ calls' = 1
    /\ result' = [v |-> basic_evaluate_expression(state.variables, ExpressionText(call.arg),
                                                  1, state.errorCode).v,
                  p |-> basic_evaluate_expression(state.variables, ExpressionText(call.arg),
                                                  1, state.errorCode).p]
    /\ state' = [state EXCEPT !.errorCode =
                     basic_evaluate_expression(state.variables, ExpressionText(call.arg),
                                               1, state.errorCode).err]
    /\ UNCHANGED <<globalErr, currentLine, stdout, call, trace>>

SpecEvaluate == InitEvaluate /\ [][Evaluate]_vars

\* the reference grammar: its two levels of operators, and a value, or no
\* value after a division by zero
TermOperators == {"*", "/"}
TierOperators == {"+", "-", "=", "<", "<=", "<>", ">", ">="}

Defined(v) == [ok |-> TRUE, v |-> v]
Undefined == [ok |-> FALSE, v |-> Num(0)]

Reference(op, x, y) ==
    IF ~x.ok \/ ~y.ok THEN Undefined
    ELSE IF op = "*" THEN Defined(RMul(x.v, y.v))
    ELSE IF op = "/" THEN IF y.v = Num(0) THEN Undefined ELSE Defined(RDiv(x.v, y.v))
    ELSE IF op = "+" THEN Defined(RAdd(x.v, y.v))
    ELSE IF op = "-" THEN Defined(RSub(x.v, y.v))
    ELSE IF op = "=" THEN Defined(Num(IF x.v = y.v THEN 1 ELSE 0))
    ELSE IF op = "<>" THEN Defined(Num(IF x.v # y.v THEN 1 ELSE 0))
    ELSE IF op = "<" THEN Defined(Num(IF x.v.n * y.v.d < y.v.n * x.v.d THEN 1 ELSE 0))
    ELSE IF op = "<=" THEN Defined(Num(IF x.v.n * y.v.d <= y.v.n * x.v.d THEN 1 ELSE 0))
    ELSE IF op = ">" THEN Defined(Num(IF x.v.n * y.v.d > y.v.n * x.v.d THEN 1 ELSE 0))
    ELSE Defined(Num(IF x.v.n * y.v.d >= y.v.n * x.v.d THEN 1 ELSE 0))

\* a op1 b op2 c: the right operator goes first only when it is * or / and
\* the left one is of the tier; a minus sign belongs to its operand
ReferenceValue(e) ==
    IF e.op1 \in TierOperators /\ e.op2 \in TermOperators
    THEN Reference(e.op1, Defined(Num(e.a)),
                   Reference(e.op2, Defined(Num(e.b)), Defined(Num(e.c))))
    ELSE Reference(e.op2, Reference(e.op1, Defined(Num(e.a)), Defined(Num(e.b))),
                   Defined(Num(e.c)))

\* C34: every expression of bounded integer operands evaluates to the value
\* of the reference grammar, where * and / bind tighter than the one
\* left-associative tier of + - = < <= <> > >=, a comparison yields 1 or 0
\* and feeds the operator to its right, and a unary minus belongs to the one
\* factor after it; the whole text is consumed then; a division by zero is
\* the one case that records an error
C34_EvaluationMatchesGrammar ==
    pc = "done" =>
        IF ReferenceValue(call.arg).ok
        THEN /\ state.errorCode = ERR_NONE
             /\ result.v = ReferenceValue(call.arg).v
             /\ result.p = Len(ExpressionText(call.arg)) + 1
        ELSE state.errorCode = ERR_DIVISION_BY_ZERO

\* C34: the two examples of the claim
C34_Examples ==
    pc = "done" =>
        /\ ExpressionText(call.arg) = "1 < 2 + 3" => result.v = Num(4)
        /\ ExpressionText(call.arg) = "2 + 3 * 4" => result.v = Num(14)

\* C34 (witness): `2 + -3 * 4` has been evaluated, to -10
C34_Witness ==
    /\ pc = "done"
    /\ ExpressionText(call.arg) = "2 + -3 * 4"
    /\ result.v = Num(0 - 10)
    /\ state.errorCode = ERR_NONE

\* C35: whenever a call to loadProgram, run or executeLine has returned
\* failure, the session's recorded error code is not the no-error code
C35_FailureRecordsError ==
    (call.op \in {"load", "run", "executeLine"} /\ pc = "idle" /\ result = 0)
        => state.errorCode # ERR_NONE

\* C35 (witness): a run has returned failure after executing statements, with
\* NEXT-without-FOR recorded
C35_Witness ==
    /\ call.op = "run" /\ pc = "idle" /\ result = 0
    /\ trace # <<>>
    /\ state.errorCode = ERR_NEXT_WITHOUT_FOR

\* C35 (further cases reached): a load and an executeLine that returned
\* failure
C35_LoadFailed == call.op = "load" /\ pc = "idle" /\ result = 0
C35_ExecuteLineFailed == call.op = "executeLine" /\ pc = "idle" /\ result = 0

\* the step executes a statement whose first token is a variable name, the
\* case executeStatement hands to basic_handle_let
BareAssignment ==
    /\ Executing # ""
    /\ basic_get_token(Executing, 1).ok
    /\ basic_get_token(Executing, 1).type = "TOK_VARIABLE"

\* the number of characters of the name that text starts with
NameLength(text) == basic_get_token(text, 1).p - basic_skip_whitespace(text, 1)

\* C36: a statement `name = expr` without the LET keyword has the result and
\* leaves the session of `LET name = expr` executed from the same state
C36_BareAssignmentIsLet ==
    [][ BareAssignment => SameAs("LET " \o Executing) ]_vars

\* the part of C36 that holds: the same, for names of at most 31 characters
C36_ShortNameIsLet ==
    [][ (BareAssignment /\ NameLength(Executing) < MAX_VAR_NAME_LENGTH)
            => SameAs("LET " \o Executing) ]_vars

\* C36 (cases reached): `a = a + 1` has succeeded after LET A = 10; the
\* 32-character name has been assigned
C36_ShortReached ==
    /\ call.op = "executeLine" /\ call.arg = "a = a + 1" /\ result = 1
    /\ \E i \in 1..Len(state.variables) :
           state.variables[i].name = "A" /\ state.variables[i].num = Num(11)
C36_LongReached ==
    /\ call.op = "executeLine" /\ NameLength(call.arg) = MAX_VAR_NAME_LENGTH /\ result = 1

\* the bytes the lines of a table account for: text length + 100 each
RECURSIVE Accounted(_)
Accounted(lines) ==
    IF lines = <<>> THEN 0
    ELSE Len(lines[1].lineText) + LINE_OVERHEAD + Accounted(Tail(lines))

\* C37: the accounted program size never exceeds the budget of 16384 bytes
\* and always equals the sum, over the lines in the table, of text length +
\* 100, also after a line number has been replaced
C37_SizeAccounted ==
    pc # "crash" =>
        /\ state.programSize <= MAX_PROGRAM_SIZE
        /\ state.programSize = Accounted(state.programLines)

\* the parts of C37 that hold: the size stays within the budget, and every
\* step other than the load of a text that repeats a number keeps the size
\* equal to the sum over the table
C37_SizeWithinBudget == state.programSize <= MAX_PROGRAM_SIZE

\* the program texts that give a line number more than once
Repeating == {programText \in Programs : Repeats(Given(programText, 1))}

C37_SizeOfDistinctNumbers ==
    [][ (/\ state.programSize = Accounted(state.programLines)
         /\ pc' # "crash"
         /\ ~(call'.op = "load" /\ calls' = calls + 1 /\ call'.arg \in Repeating))
        => state'.programSize = Accounted(state'.programLines) ]_vars

\* C37 (case reached): a load that repeats a line number after the head has
\* returned success
C37_ReplacedReached ==
    /\ call.op = "load" /\ pc = "idle" /\ result = 1
    /\ Repeats(Given(call.arg, 1))

====
